---- MODULE Spec2Model ----
(***************************************************************************)
(* A model of four pieces of great_expectations:                           *)
(*                                                                         *)
(*   - the metric column_values.string_integers.increasing, in its Pandas  *)
(*     (array-vectorized) and Spark (window function) variants, and the    *)
(*     _validate step of ExpectColumnValuesToBeStringIntegersIncreasing    *)
(*     (specification SpecInc);                                            *)
(*   - the Spark branch of the metric table.column_types, that is the      *)
(*     recursive schema flattening _get_spark_column_metadata              *)
(*     (specification SpecTypes);                                          *)
(*   - the dependency declaration _get_evaluation_dependencies of the      *)
(*     increasing metric (specification SpecDeps);                         *)
(*   - the SQL branch of the metric table.column_types, that is the        *)
(*     resolution of the batch in ColumnTypes._sqlalchemy and the choice   *)
(*     of table and schema in _get_sqlalchemy_column_metadata              *)
(*     (specification SpecSql).                                            *)
(*                                                                         *)
(* Strings are sequences of one-character strings, so that isdigit, the    *)
(* integer casts, the dot test and the back-quoting of names are computed  *)
(* character by character, as the code computes them.                      *)
(***************************************************************************)
EXTENDS Integers, Sequences, FiniteSets, TLC

VARIABLES
    \* ---- the increasing metric (SpecInc)
    column,              \* the rows of the target column, in the order given
    strictly,            \* metric value kwarg "strictly"
    table_columns,       \* metrics["table.column_types"]: sequence of {name, type}
    metrics,             \* the outcome of the latest computation of the metric
    verdict,             \* what _validate returned for the latest computation
    spark_trace,         \* what the latest Spark computation did on its way
    \* ---- table.column_types on Spark (SpecTypes)
    field,               \* the node handed to _get_spark_column_metadata
    include_nested,      \* metric value kwarg "include_nested"
    column_types,        \* what the flattening returned
    \* ---- _get_evaluation_dependencies (SpecDeps)
    metric_domain_kwargs,  \* metric.metric_domain_kwargs
    execution_engine,      \* the execution_engine argument
    dependencies,          \* the dictionary returned
    kwargs_at_call,        \* history: metric.metric_domain_kwargs as the call found it
    \* ---- table.column_types on SQL (SpecSql)
    sql_domain_kwargs,     \* metric_domain_kwargs of ColumnTypes._sqlalchemy
    batch_manager,         \* execution_engine.batch_manager
    sql_column_types,      \* what ColumnTypes._sqlalchemy did
    batch_manager_at_call, \* history: the batch manager as the call found it
    \* ---- position
    pc

vars == <<column, strictly, table_columns, metrics, verdict, spark_trace,
          field, include_nested, column_types,
          metric_domain_kwargs, execution_engine, dependencies, kwargs_at_call,
          sql_domain_kwargs, batch_manager, sql_column_types,
          batch_manager_at_call, pc>>

incVars == <<column, strictly, table_columns, metrics, verdict, spark_trace>>
typesVars == <<field, include_nested, column_types>>
depsVars == <<metric_domain_kwargs, execution_engine, dependencies, kwargs_at_call>>
sqlVars == <<sql_domain_kwargs, batch_manager, sql_column_types, batch_manager_at_call>>

(***************************************************************************)
(* Bounds.                                                                 *)
(***************************************************************************)
MaxRows == 3
MaxWidth == 2

(***************************************************************************)
(* Strings.                                                                *)
(***************************************************************************)
Digits == {"0", "1", "2", "3", "4", "5", "6", "7", "8", "9"}

DigitValue(ch) ==
    CASE ch = "0" -> 0 [] ch = "1" -> 1 [] ch = "2" -> 2 [] ch = "3" -> 3
      [] ch = "4" -> 4 [] ch = "5" -> 5 [] ch = "6" -> 6 [] ch = "7" -> 7
      [] ch = "8" -> 8 [] ch = "9" -> 9

\* str.isdigit(): a non-empty string of digits.
str_isdigit(s) == Len(s) > 0 /\ \A i \in 1..Len(s) : s[i] \in Digits

\* int(s) for a string of digits, read left to right.
RECURSIVE int_of_digits(_, _)
int_of_digits(s, acc) ==
    IF s = <<>> THEN acc
    ELSE int_of_digits(Tail(s), 10 * acc + DigitValue(Head(s)))

\* A cast that keeps the order of the strings instead of the order of the
\* integers: a row counts as its first digit.
astype_int_lexical(col) == [i \in 1..Len(col) |-> DigitValue(col[i][1])]

\* _column.astype(int), row by row.
astype_int(col) == [i \in 1..Len(col) |-> int_of_digits(col[i], 0)]

\* The rows a column may hold: digit strings (among them "9" and "11", which
\* compare one way as integers and the other way as strings), and strings
\* that are not digit-only ("2x", "-1").
Values == { <<"0">>, <<"9">>, <<"1", "1">>, <<"2", "x">>, <<"-", "1">> }

\* A row that holds no value (a null of the dataframe).
Null == <<"NULL">>

\* A column holds strings, and in a Spark dataframe possibly nulls.
Columns == UNION { [1..n -> Values \cup {Null}] : n \in 0..MaxRows }

(***************************************************************************)
(* Data types and column descriptors.                                      *)
(***************************************************************************)
LeafType(k) == [kind |-> k, fields |-> <<>>]
StringType == LeafType("StringType")
IntegerType == LeafType("IntegerType")
StructType(fs) == [kind |-> "StructType", fields |-> fs]
StructField(n, t) == [kind |-> "StructField", name |-> n, dataType |-> t]

ColumnName == <<"a">>

\* What metrics["table.column_types"] may hold for the table of the column.
TableColumnsChoices ==
    { << [name |-> <<"a">>, type |-> StringType] >>,
      << [name |-> <<"a">>, type |-> IntegerType] >>,
      << [name |-> <<"b">>, type |-> IntegerType], [name |-> <<"a">>, type |-> StringType] >>,
      << [name |-> <<"b">>, type |-> StringType] >> }

(***************************************************************************)
(* The increasing metric.                                                  *)
(***************************************************************************)
NoOutcome == [engine |-> "none", raised |-> "none", mask |-> <<>>]
Raised(e, what) == [engine |-> e, raised |-> what, mask |-> <<>>]
Returned(e, m) == [engine |-> e, raised |-> "none", mask |-> m]

\* np.diff: the differences of adjacent elements, one fewer than the input.
np_diff(xs) == [i \in 1..(Len(xs) - 1) |-> xs[i + 1] - xs[i]]

\* series_diff > 0 when strictly, series_diff >= 0 otherwise.
pandas_compare(series_diff, strict) ==
    [i \in 1..Len(series_diff) |->
        IF strict THEN series_diff[i] > 0 ELSE series_diff[i] >= 0]

\* ColumnValuesStringIntegersIncreasing._pandas
ColumnValuesStringIntegersIncreasing_pandas(col, strict) ==
    IF \A i \in 1..Len(col) : str_isdigit(col[i])
    THEN Returned("pandas", pandas_compare(np_diff(astype_int(col)), strict))
    ELSE Raised("pandas", "TypeError")

\* F.col(column_name).cast(IntegerType()) of one row: the integer the string
\* denotes (an optional sign, then digits), null when it denotes none, and
\* null for a null.
cast_IntegerType(s) ==
    LET negative == Len(s) > 0 /\ Head(s) = "-"
        digits == IF negative THEN Tail(s) ELSE s
    IN  IF str_isdigit(digits)
        THEN [isNull |-> FALSE,
              value |-> IF negative THEN 0 - int_of_digits(digits, 0)
                        ELSE int_of_digits(digits, 0)]
        ELSE [isNull |-> TRUE, value |-> 0]

\* The orders in which a window ordered by a constant key may present n rows:
\* every row ties with every other, so the engine is free to pick any.
WindowOrders(n) ==
    Permutations(1..n)

\* column - F.lag(column).over(window): null for the row without predecessor.
lag_diff(casted, order) ==
    [k \in 1..Len(casted) |->
        IF k = 1 \/ casted[order[k]].isNull \/ casted[order[k - 1]].isNull
        THEN [isNull |-> TRUE, value |-> 0]
        ELSE [isNull |-> FALSE,
              value |-> casted[order[k]].value - casted[order[k - 1]].value]]

\* F.when(diff.isNull(), 1).otherwise(diff)
when_null_1(diff) ==
    [k \in 1..Len(diff) |-> IF diff[k].isNull THEN 1 ELSE diff[k].value]

\* F.when(diff <= 0, False).otherwise(True) when strictly is True,
\* F.when(diff < 0, False).otherwise(True) otherwise.
spark_compare(diff, strict) ==
    [k \in 1..Len(diff) |->
        IF strict THEN (IF diff[k] <= 0 THEN FALSE ELSE TRUE)
        ELSE (IF diff[k] < 0 THEN FALSE ELSE TRUE)]

\* The collected flags with the first element kept.
drop_nothing(xs) == xs

\* np.array(...).reshape(-1)[1:]
drop_first(xs) == SubSeq(xs, 2, Len(xs))

\* The null check left out.
any_isNull_skipped(casted) == FALSE

\* any(np.array(df.select(column.isNull()).collect()))
any_isNull(casted) == \E i \in 1..Len(casted) : casted[i].isNull

\* ColumnValuesStringIntegersIncreasing._spark, the window presenting the
\* rows in the order given.
ColumnValuesStringIntegersIncreasing_spark(col, strict, tcols, order) ==
    LET matching == SelectSeq(tcols, LAMBDA c : c.name = ColumnName)
        casted == [i \in 1..Len(col) |-> cast_IntegerType(col[i])]
    IN  IF matching = <<>> THEN Raised("spark", "IndexError")
        ELSE IF matching[1].type.kind # "StringType" THEN Raised("spark", "TypeError")
        ELSE IF any_isNull(casted) THEN Raised("spark", "TypeError")
        ELSE Returned("spark",
                 drop_first(spark_compare(when_null_1(lag_diff(casted, order)), strict)))

\* What _spark did on its way to that outcome: whether it resolved the
\* compute domain (get_compute_domain), how many times it collected rows,
\* and the rows of the window whose null difference became the sentinel 1.
NoSparkTrace == [resolved |-> FALSE, collected |-> 0, sentinels |-> {}]

spark_trace_of(col, tcols, order) ==
    LET matching == SelectSeq(tcols, LAMBDA c : c.name = ColumnName)
        casted == [i \in 1..Len(col) |-> cast_IntegerType(col[i])]
        diff == lag_diff(casted, order)
    IN  IF matching = <<>> THEN NoSparkTrace
        ELSE IF matching[1].type.kind # "StringType" THEN NoSparkTrace
        ELSE IF any_isNull(casted)
        THEN [resolved |-> TRUE, collected |-> 1, sentinels |-> {}]
        ELSE [resolved |-> TRUE, collected |-> 2,
              sentinels |-> {k \in 1..Len(diff) : diff[k].isNull}]

\* ExpectColumnValuesToBeStringIntegersIncreasing._validate: all(mask).
validate_success(mask) == \A i \in 1..Len(mask) : mask[i]

NoVerdict == [set |-> FALSE, success |-> FALSE]

(***************************************************************************)
(* Idle values of the variables a specification does not use.              *)
(***************************************************************************)
NoColumnTypes == [called |-> FALSE, raised |-> "none", cols |-> <<>>]
EmptyDict == [k \in {} |-> "none"]
NoDependencies == [declared |-> FALSE, dict |-> EmptyDict]

IncIdle ==
    /\ column = <<>> /\ strictly = FALSE /\ table_columns = <<>>
    /\ metrics = NoOutcome /\ verdict = NoVerdict
    /\ spark_trace = NoSparkTrace

TypesIdle ==
    /\ field = StructType(<<>>) /\ include_nested = TRUE
    /\ column_types = NoColumnTypes

DepsIdle ==
    /\ metric_domain_kwargs = EmptyDict /\ execution_engine = "none"
    /\ dependencies = NoDependencies /\ kwargs_at_call = EmptyDict

NoBatchManager == [active_batch_data_id |-> "None", batch_data_cache |-> EmptyDict]
NoRequest == [table_selectable |-> [kind |-> "None"], schema_name |-> "None"]
NoSqlColumnTypes ==
    [called |-> FALSE, raised |-> "none", batch_id |-> "None", request |-> NoRequest]

SqlIdle ==
    /\ sql_domain_kwargs = EmptyDict /\ batch_manager = NoBatchManager
    /\ sql_column_types = NoSqlColumnTypes
    /\ batch_manager_at_call = NoBatchManager

(***************************************************************************)
(* SpecInc: the metric is computed on one engine or the other, any number  *)
(* of times, for the same column and configuration, and _validate reads    *)
(* the latest result.                                                      *)
(***************************************************************************)
InitInc ==
    /\ column \in Columns
    /\ strictly \in BOOLEAN
    /\ table_columns \in TableColumnsChoices
    /\ metrics = NoOutcome /\ verdict = NoVerdict
    /\ spark_trace = NoSparkTrace
    /\ TypesIdle /\ DepsIdle /\ SqlIdle
    /\ pc = "increasing"

\* The Pandas column holds strings: a column with a null is computed on
\* Spark only.
PandasCompute ==
    /\ pc = "increasing"
    /\ \A i \in 1..Len(column) : column[i] # Null
    /\ metrics' = ColumnValuesStringIntegersIncreasing_pandas(column, strictly)
    /\ verdict' = NoVerdict
    /\ spark_trace' = NoSparkTrace
    /\ UNCHANGED <<column, strictly, table_columns, typesVars, depsVars, sqlVars, pc>>

SparkCompute ==
    /\ pc = "increasing"
    /\ \E run \in
            { << ColumnValuesStringIntegersIncreasing_spark(
                     column, strictly, table_columns, order),
                 spark_trace_of(column, table_columns, order) >> :
              order \in WindowOrders(Len(column)) } :
          metrics' = run[1] /\ spark_trace' = run[2]
    /\ verdict' = NoVerdict
    /\ UNCHANGED <<column, strictly, table_columns, typesVars, depsVars, sqlVars, pc>>

Validate ==
    /\ pc = "increasing"
    /\ metrics.engine # "none" /\ metrics.raised = "none"
    /\ ~verdict.set
    /\ verdict' = [set |-> TRUE, success |-> validate_success(metrics.mask)]
    /\ UNCHANGED <<column, strictly, table_columns, metrics, spark_trace,
                   typesVars, depsVars, sqlVars, pc>>

NextInc == PandasCompute \/ SparkCompute \/ Validate

SpecInc == InitInc /\ [][NextInc]_vars

(***************************************************************************)
(* What the claims about the increasing metric speak of.                   *)
(***************************************************************************)
\* The integer a string of digits denotes, read from its last digit.
RECURSIVE DecimalValue(_)
DecimalValue(s) ==
    IF s = <<>> THEN 0
    ELSE 10 * DecimalValue(SubSeq(s, 1, Len(s) - 1)) + DigitValue(s[Len(s)])

IsDigitString(s) == s # <<>> /\ \A i \in DOMAIN s : s[i] \in Digits
AllDigitStrings(col) == \A i \in DOMAIN col : IsDigitString(col[i])

\* Row j compared against row i, on the integers.
RowIncreases(col, i, j, strict) ==
    IF strict THEN DecimalValue(col[j]) - DecimalValue(col[i]) > 0
    ELSE DecimalValue(col[j]) - DecimalValue(col[i]) >= 0

AdjacentIncreasing(col, strict) ==
    \A i \in 1..(Len(col) - 1) : RowIncreases(col, i, i + 1, strict)

\* table.column_types describes the target column, as a string column.
ColumnIsString ==
    \E i \in DOMAIN table_columns :
        /\ table_columns[i].name = ColumnName
        /\ table_columns[i].type = StringType
        /\ \A j \in 1..(i - 1) : table_columns[j].name # ColumnName

Computed == metrics.engine # "none"
WellTyped == metrics.engine = "spark" => ColumnIsString

\* C1: on a column of digit-only strings the Pandas variant returns a mask,
\* and the success _validate reports from it is true exactly when every
\* adjacent pair of rows increases as integers (strictly when strictly is
\* true), false otherwise.
C1_PandasSuccessIsIntegerIncreasing ==
    (metrics.engine = "pandas" /\ AllDigitStrings(column)) =>
        /\ metrics.raised = "none"
        /\ verdict.set => (verdict.success <=> AdjacentIncreasing(column, strictly))

\* C1 witness: "9" then "11" validated as strictly increasing on Pandas.
C1_Witness ==
    /\ metrics.engine = "pandas" /\ verdict.set /\ verdict.success /\ strictly
    /\ \E i \in 1..(Len(column) - 1) :
          column[i] = <<"9">> /\ column[i + 1] = <<"1", "1">>

\* C2: a column holding a string that is not digit-only makes the metric
\* raise a type error and return no mask, on Pandas and on Spark, and no
\* verdict is computed.
C2_NonDigitStringRaises ==
    (Computed /\ WellTyped /\ ~AllDigitStrings(column)) =>
        /\ metrics.raised = "TypeError"
        /\ metrics.mask = <<>>
        /\ ~verdict.set

\* C3: on a column of digit-only strings the Pandas and the Spark variant
\* both return a mask, and the two masks are equal: a computation on one
\* engine that follows a computation on the other returns the same mask.
C3_VariantsAgree ==
    [][(/\ AllDigitStrings(column) /\ ColumnIsString
        /\ {metrics.engine, metrics'.engine} = {"pandas", "spark"}) =>
           /\ metrics.raised = "none" /\ metrics'.raised = "none"
           /\ metrics'.mask = metrics.mask]_vars

\* C4 as stated: on a column of 0 or 1 rows both variants return a mask of
\* length 0 without raising, and _validate reports success.
C4_ShortColumnNeverFails ==
    (Computed /\ WellTyped /\ Len(column) <= 1) =>
        /\ metrics.raised = "none"
        /\ Len(metrics.mask) = 0
        /\ verdict.set => verdict.success

\* C4 as amended: on a column of 0 or 1 rows whose row, if any, is a
\* digit-only string, both variants return a mask of length 0 without
\* raising, and _validate reports success.
C4_ShortDigitColumnNeverFails ==
    (Computed /\ WellTyped /\ Len(column) <= 1 /\ AllDigitStrings(column)) =>
        /\ metrics.raised = "none"
        /\ Len(metrics.mask) = 0
        /\ verdict.set => verdict.success

\* C4 witness: a single digit-only row validated on Spark, strictly.
C4_Witness ==
    /\ metrics.engine = "spark" /\ Len(column) = 1 /\ AllDigitStrings(column)
    /\ strictly /\ verdict.set /\ verdict.success

\* C9: two computations of the metric on the same engine, for the same
\* column and the same configuration, return the identical result: a
\* computation that follows one on the same engine changes nothing.
C9_RepeatedComputeIsIdentical ==
    [][(Computed /\ metrics'.engine = metrics.engine) => metrics' = metrics]_vars

\* C10: on n >= 1 digit-only rows the mask has length n - 1 in both
\* variants, and its element i (counted from 1) is the comparison of row
\* i + 1 against row i.
C10_MaskComparesAdjacentRows ==
    (Computed /\ ColumnIsString /\ Len(column) >= 1 /\ AllDigitStrings(column)) =>
        /\ metrics.raised = "none"
        /\ Len(metrics.mask) = Len(column) - 1
        /\ \A i \in 1..(Len(column) - 1) :
              metrics.mask[i] <=> RowIncreases(column, i, i + 1, strictly)

\* The rows whose cast to an integer is null: a null, or a string that is
\* not an optional sign followed by digits.
CastIsNull(s) ==
    \/ s = Null
    \/ ~(IsDigitString(s) \/ (s # <<>> /\ s[1] = "-" /\ IsDigitString(Tail(s))))

\* table.column_types describes the target column with another type than
\* string.
ColumnIsNotString ==
    \E i \in DOMAIN table_columns :
        /\ table_columns[i].name = ColumnName
        /\ table_columns[i].type # StringType
        /\ \A j \in 1..(i - 1) : table_columns[j].name # ColumnName

\* C11: on Spark, a column that table.column_types describes as not
\* string-typed makes the metric raise before it resolves the compute domain
\* or reads a row; a row that is null, or whose cast to an integer is null,
\* makes it raise and return no mask, and no verdict is computed; so the
\* sentinel 1 is given to no row but the one without predecessor.
C11_SparkNullIsFatal ==
    metrics.engine = "spark" =>
        /\ ColumnIsNotString =>
              /\ metrics.raised = "TypeError" /\ metrics.mask = <<>>
              /\ ~spark_trace.resolved /\ spark_trace.collected = 0
        /\ (ColumnIsString /\ \E i \in DOMAIN column : CastIsNull(column[i])) =>
              /\ metrics.raised = "TypeError" /\ metrics.mask = <<>>
              /\ ~verdict.set
        /\ spark_trace.sentinels \subseteq {1}

\* C11 witness: a string-typed column whose second row is null, refused by
\* the Spark variant after it resolved the compute domain.
C11_Witness ==
    /\ metrics.engine = "spark" /\ metrics.raised = "TypeError"
    /\ ColumnIsString /\ spark_trace.resolved
    /\ Len(column) >= 2 /\ column[1] = <<"0">> /\ column[2] = Null

(***************************************************************************)
(* table.column_types on Spark: _get_spark_column_metadata.                *)
(***************************************************************************)
\* "." in field.name
has_dot(name) == \E i \in DOMAIN name : name[i] = "."

\* if parent_name != "": parent_name = f"{parent_name}."
with_dot(parent_name) ==
    IF parent_name # <<>> THEN parent_name \o <<".">> ELSE parent_name

\* The back-quote character, which a string literal of this module cannot
\* hold.
Backquote == "BACKQUOTE"

\* The reported name of a field: parent_name, then field.name between two
\* back-quotes, when the field's name holds a dot; parent_name + field.name
\* otherwise.
reported_name(parent_name, name) ==
    IF has_dot(name) THEN parent_name \o <<Backquote>> \o name \o <<Backquote>>
    ELSE parent_name \o name

\* Only the first child of a struct field is descended into.
nested_fields_first_only(fld, incl) ==
    IF incl /\ fld.dataType.kind = "StructType" /\ fld.dataType.fields # <<>>
    THEN <<fld.dataType.fields[1]>>
    ELSE <<>>

\* The children a struct field is descended into: those of its data type
\* when include_nested holds and the data type is a StructType.
nested_fields(fld, incl) ==
    IF incl /\ fld.dataType.kind = "StructType" THEN fld.dataType.fields
    ELSE <<>>

OkCols(cs) == [raised |-> "none", cols |-> cs]
ValueError == [raised |-> "ValueError", cols |-> <<>>]

RECURSIVE get_spark_column_metadata(_, _, _)
RECURSIVE children_metadata(_, _, _)

\* cols += _get_spark_column_metadata(child, ...) for each child in turn; an
\* exception raised for a child ends the call.
children_metadata(children, parent_name, incl) ==
    IF children = <<>> THEN OkCols(<<>>)
    ELSE LET first == get_spark_column_metadata(Head(children), parent_name, incl)
             rest == children_metadata(Tail(children), parent_name, incl)
         IN  IF first.raised # "none" THEN first
             ELSE IF rest.raised # "none" THEN rest
             ELSE OkCols(first.cols \o rest.cols)

\* _get_spark_column_metadata(field, parent_name, include_nested). The
\* StructType branch calls itself without include_nested, which is then the
\* default, True.
get_spark_column_metadata(fld, parent_name_given, incl) ==
    LET parent_name == with_dot(parent_name_given)
    IN  IF fld.kind = "StructType"
        THEN children_metadata(fld.fields, parent_name, TRUE)
        ELSE IF fld.kind = "StructField"
        THEN LET field_metadata ==
                     [name |-> reported_name(parent_name, fld.name),
                      type |-> fld.dataType]
                 nested == children_metadata(nested_fields(fld, incl),
                                             parent_name \o fld.name, incl)
             IN  IF nested.raised # "none" THEN nested
                 ELSE OkCols(<<field_metadata>> \o nested.cols)
        ELSE ValueError

\* The schemas: three levels of fields, the names of one level distinct.
\* Column x and column x.y (a name holding a dot) may each hold a struct;
\* within a struct, y may hold a struct again and y.z holds a dot.
DistinctNames(fs) == \A i, j \in DOMAIN fs : fs[i].name = fs[j].name => i = j

StructsOver(fieldSet) ==
    { StructType(fs) : fs \in
        { gs \in UNION { [1..n -> fieldSet] : n \in 1..MaxWidth } : DistinctNames(gs) } }

InnerFields == { StructField(<<"z">>, IntegerType) }
MidFields ==
    { StructField(<<"y">>, t) : t \in {StringType} \cup StructsOver(InnerFields) }
    \cup { StructField(<<"z">>, StringType), StructField(<<"y", ".", "z">>, StringType) }
TopFields ==
    { StructField(n, t) : n \in { <<"x">>, <<"x", ".", "y">> },
                          t \in {StringType} \cup StructsOver(MidFields) }
    \cup { StructField(<<"w">>, IntegerType) }
Schemas == StructsOver(TopFields)

(***************************************************************************)
(* SpecTypes: the metric flattens the schema of a dataframe; the function  *)
(* may also be handed a single field or a data type.                       *)
(***************************************************************************)
InitTypes ==
    /\ field \in Schemas \cup TopFields \cup {StringType, IntegerType}
    /\ include_nested \in BOOLEAN
    /\ column_types = NoColumnTypes
    /\ IncIdle /\ DepsIdle /\ SqlIdle
    /\ pc = "column_types"

\* ColumnTypes._spark: the schema of the dataframe, include_nested from the
\* metric value kwargs.
ColumnTypes_spark ==
    /\ pc = "column_types"
    /\ ~column_types.called
    /\ field.kind = "StructType"
    /\ LET r == get_spark_column_metadata(field, <<>>, include_nested)
       IN  column_types' = [called |-> TRUE, raised |-> r.raised, cols |-> r.cols]
    /\ UNCHANGED <<field, include_nested, incVars, depsVars, sqlVars, pc>>

\* _get_spark_column_metadata called on a node that is no schema.
GetSparkColumnMetadata ==
    /\ pc = "column_types"
    /\ ~column_types.called
    /\ field.kind # "StructType"
    /\ LET r == get_spark_column_metadata(field, <<>>, include_nested)
       IN  column_types' = [called |-> TRUE, raised |-> r.raised, cols |-> r.cols]
    /\ UNCHANGED <<field, include_nested, incVars, depsVars, sqlVars, pc>>

NextTypes == ColumnTypes_spark \/ GetSparkColumnMetadata

SpecTypes == InitTypes /\ [][NextTypes]_vars

(***************************************************************************)
(* What the claims about the flattening speak of.                          *)
(***************************************************************************)
\* The fields at the root of the node flattened.
RootFields ==
    IF field.kind = "StructType" THEN field.fields
    ELSE IF field.kind = "StructField" THEN <<field>>
    ELSE <<>>

\* The fields of a schema, at any depth, each as the path of child indices
\* that leads to it.
RECURSIVE FieldPaths(_)
FieldPaths(fs) ==
    UNION { {<<i>>} \cup { <<i>> \o p : p \in FieldPaths(fs[i].dataType.fields) } :
            i \in DOMAIN fs }

RECURSIVE FieldAt(_, _)
FieldAt(fs, p) ==
    IF Len(p) = 1 THEN fs[p[1]]
    ELSE FieldAt(fs[p[1]].dataType.fields, Tail(p))

\* Schema order: a field before its descendants, a sibling and its
\* descendants before the next sibling.
PathBefore(p, q) ==
    \/ Len(p) < Len(q) /\ SubSeq(q, 1, Len(p)) = p
    \/ \E k \in 1..Len(p) :
          /\ k <= Len(q)
          /\ SubSeq(p, 1, k - 1) = SubSeq(q, 1, k - 1)
          /\ p[k] < q[k]

Position(fs, p) == 1 + Cardinality({q \in FieldPaths(fs) : PathBefore(q, p)})

RECURSIVE DotJoined(_)
DotJoined(names) ==
    IF Len(names) = 1 THEN names[1]
    ELSE names[1] \o <<".">> \o DotJoined(Tail(names))

NamesAlong(fs, p) == [k \in 1..Len(p) |-> FieldAt(fs, SubSeq(p, 1, k)).name]

Quoted(name) ==
    IF \E i \in DOMAIN name : name[i] = "." THEN <<Backquote>> \o name \o <<Backquote>>
    ELSE name

\* The names of the ancestors and the field's own name, joined by dots.
PathName(fs, p) == DotJoined(NamesAlong(fs, p))

\* The same, the field's own name back-quoted when it holds a dot.
PathNameOwnQuoted(fs, p) ==
    LET names == NamesAlong(fs, p)
    IN  DotJoined([names EXCEPT ![Len(p)] = Quoted(names[Len(p)])])

\* C5: with include_nested = false the flattening of a table schema returns
\* exactly one entry per top-level column, and none for a field nested in a
\* struct column.
C5_NotNestedReportsTopLevelOnly ==
    (column_types.called /\ field.kind = "StructType" /\ ~include_nested) =>
        /\ column_types.raised = "none"
        /\ Len(column_types.cols) = Len(field.fields)
        /\ \A i \in DOMAIN field.fields :
              column_types.cols[i].type = field.fields[i].dataType

\* C6: no two distinct fields of a schema, at any depth, are reported under
\* the same name.
C6_ReportedNamesDistinct ==
    (column_types.called /\ field.kind = "StructType") =>
        \A i, j \in DOMAIN column_types.cols :
            column_types.cols[i].name = column_types.cols[j].name => i = j

\* C7 as stated: with include_nested = true every field is reported exactly
\* once, in schema order (a struct field, then its descendants), with its
\* data type and under the dot-joined names of its ancestors and itself; a
\* node that is neither a struct type nor a struct field raises.
C7_EveryFieldUnderDotJoinedPath ==
    (column_types.called /\ include_nested) =>
        IF field.kind \in {"StructType", "StructField"}
        THEN /\ column_types.raised = "none"
             /\ Len(column_types.cols) = Cardinality(FieldPaths(RootFields))
             /\ \A p \in FieldPaths(RootFields) :
                   LET entry == column_types.cols[Position(RootFields, p)]
                   IN  /\ entry.type = FieldAt(RootFields, p).dataType
                       /\ entry.name = PathName(RootFields, p)
        ELSE column_types.raised = "ValueError" /\ column_types.cols = <<>>

\* C7 as amended: the same, the field's own name being back-quoted in its
\* reported name when it holds a dot.
C7_EveryFieldUnderPathOwnNameQuoted ==
    (column_types.called /\ include_nested) =>
        IF field.kind \in {"StructType", "StructField"}
        THEN /\ column_types.raised = "none"
             /\ Len(column_types.cols) = Cardinality(FieldPaths(RootFields))
             /\ \A p \in FieldPaths(RootFields) :
                   LET entry == column_types.cols[Position(RootFields, p)]
                   IN  /\ entry.type = FieldAt(RootFields, p).dataType
                       /\ entry.name = PathNameOwnQuoted(RootFields, p)
        ELSE column_types.raised = "ValueError" /\ column_types.cols = <<>>

\* C7 witness: a schema flattened with include_nested = true whose first
\* column x holds a struct y holding z, followed by a second column.
C7_Witness ==
    /\ column_types.called /\ include_nested /\ field.kind = "StructType"
    /\ Len(column_types.cols) >= 4
    /\ column_types.cols[1].name = <<"x">>
    /\ column_types.cols[1].type.kind = "StructType"
    /\ column_types.cols[2].name = <<"x", ".", "y">>
    /\ column_types.cols[3].name = <<"x", ".", "y", ".", "z">>
    /\ column_types.cols[4].name = <<Backquote, "x", ".", "y", Backquote>>

(***************************************************************************)
(* _get_evaluation_dependencies of the increasing metric.                  *)
(***************************************************************************)
DomainKeys == {"column", "row_condition", "condition_parser", "batch_id"}
DomainValues == {"u", "v"}
DomainKwargs == UNION { [ks -> DomainValues] : ks \in SUBSET DomainKeys }

ExecutionEngines ==
    {"PandasExecutionEngine", "SparkDFExecutionEngine", "SqlAlchemyExecutionEngine", "None"}

MetricConfiguration(name, domain_kwargs, value_kwargs) ==
    [metric_name |-> name,
     metric_domain_kwargs |-> domain_kwargs,
     metric_value_kwargs |-> value_kwargs]

\* What super()._get_evaluation_dependencies may return: no dependency, a
\* dependency under another name, or one already under "table.column_types".
SuperDependencies(mdk) ==
    { EmptyDict,
      [k \in {"table.columns"} |->
          MetricConfiguration(k, mdk, [include_nested |-> FALSE])],
      [k \in {"table.column_types"} |->
          MetricConfiguration(k, mdk, [include_nested |-> FALSE])] }

\* A comprehension that drops the row filter with the column.
table_domain_kwargs_column_only(mdk) ==
    [k \in (DOMAIN mdk) \ {"column", "row_condition", "condition_parser"} |-> mdk[k]]

\* {k: v for k, v in metric.metric_domain_kwargs.items() if k != "column"}
table_domain_kwargs(mdk) == [k \in (DOMAIN mdk) \ {"column"} |-> mdk[k]]

\* dependencies["table.column_types"] = MetricConfiguration(...)
with_column_types(deps, mdk) ==
    [k \in (DOMAIN deps) \cup {"table.column_types"} |->
        IF k = "table.column_types"
        THEN MetricConfiguration("table.column_types", table_domain_kwargs(mdk),
                                 [include_nested |-> TRUE])
        ELSE deps[k]]

InitDeps ==
    /\ metric_domain_kwargs \in DomainKwargs
    /\ kwargs_at_call = metric_domain_kwargs
    /\ execution_engine \in ExecutionEngines
    /\ dependencies = NoDependencies
    /\ IncIdle /\ TypesIdle /\ SqlIdle
    /\ pc = "dependencies"

GetEvaluationDependencies ==
    /\ pc = "dependencies"
    /\ ~dependencies.declared
    /\ \E super \in SuperDependencies(metric_domain_kwargs) :
          dependencies' = [declared |-> TRUE,
                           dict |-> with_column_types(super, metric_domain_kwargs)]
    /\ UNCHANGED <<metric_domain_kwargs, kwargs_at_call, execution_engine,
                   incVars, typesVars, sqlVars, pc>>

NextDeps == GetEvaluationDependencies

SpecDeps == InitDeps /\ [][NextDeps]_vars

\* C8: the dependency "table.column_types" is declared whatever the engine,
\* its domain kwargs are those of the metric with exactly the key "column"
\* removed, every other key keeping its value, and the metric's own domain
\* kwargs are left as they were.
C8_DependencyKeepsRestrictions ==
    dependencies.declared =>
        /\ "table.column_types" \in DOMAIN dependencies.dict
        /\ LET dk == dependencies.dict["table.column_types"].metric_domain_kwargs
           IN  /\ DOMAIN dk = (DOMAIN kwargs_at_call) \ {"column"}
               /\ \A k \in DOMAIN dk : dk[k] = kwargs_at_call[k]
        /\ metric_domain_kwargs = kwargs_at_call

\* C8 witness: declared for the Pandas engine, for a metric restricted by a
\* column, a row filter and a batch id.
C8_Witness ==
    /\ dependencies.declared
    /\ execution_engine = "PandasExecutionEngine"
    /\ {"column", "row_condition", "batch_id"} \subseteq DOMAIN kwargs_at_call
    /\ "row_condition" \in
          DOMAIN dependencies.dict["table.column_types"].metric_domain_kwargs

(***************************************************************************)
(* table.column_types on SQL: ColumnTypes._sqlalchemy and                  *)
(* _get_sqlalchemy_column_metadata.  None is the string "None".            *)
(***************************************************************************)
BatchIds == {"b1", "b2"}

\* A batch's selectable: a text clause, or a table with a name and possibly
\* a schema.
Selectables ==
    { [kind |-> "TextClause", text |-> "select"],
      [kind |-> "Table", name |-> "t", schema |-> "None"],
      [kind |-> "Table", name |-> "t", schema |-> "s"] }

\* SqlAlchemyBatchData, by the attributes the metric reads.
SqlAlchemyBatchData ==
    [selectable : Selectables,
     source_table_name : {"None", "src_t"},
     source_schema_name : {"None", "src_s"}]

\* The batch manager: the loaded batches by id, and the id of the active one
\* if a batch is loaded.
BatchManagers ==
    { [active_batch_data_id |-> a, batch_data_cache |-> c] :
        <<a, c>> \in { ac \in ({"None"} \cup BatchIds) \X
                               UNION { [ids -> SqlAlchemyBatchData] : ids \in SUBSET BatchIds } :
                        ac[1] = "None" \/ ac[1] \in DOMAIN ac[2] } }

\* The domain kwargs, with or without the key "batch_id".
SqlDomainKwargs ==
    UNION { [ks -> {"None"} \cup BatchIds] : ks \in SUBSET {"batch_id"} }

\* dict.get(key): the value, None without the key.
dict_get(d, key) == IF key \in DOMAIN d THEN d[key] ELSE "None"

\* a or b
py_or(a, b) == IF a # "None" THEN a ELSE b

\* The active batch preferred to the one the domain kwargs name.
batch_id_active_first(given, active) == py_or(active, given)

\* Lines 55-58: the batch_id of the domain kwargs, the active batch's without.
batch_id_resolved(given, active) == IF given = "None" THEN active ELSE given

\* _get_sqlalchemy_column_metadata: the table and schema asked of
\* get_sqlalchemy_column_metadata.
get_sqlalchemy_column_metadata_request(batch_data) ==
    IF batch_data.selectable.kind = "TextClause"
    THEN [table_selectable |-> batch_data.selectable, schema_name |-> "None"]
    ELSE [table_selectable |->
              [kind |-> "str",
               text |-> py_or(batch_data.source_table_name, batch_data.selectable.name)],
          schema_name |->
              py_or(batch_data.source_schema_name, batch_data.selectable.schema)]

\* ColumnTypes._sqlalchemy
ColumnTypes_sqlalchemy(mdk, bm) ==
    LET batch_id == batch_id_resolved(dict_get(mdk, "batch_id"), bm.active_batch_data_id)
        batch_data == dict_get(bm.batch_data_cache, batch_id)
    IN  IF batch_id = "None"
        THEN [called |-> TRUE, raised |-> "GreatExpectationsError",
              batch_id |-> "None", request |-> NoRequest]
        ELSE IF batch_id \notin DOMAIN bm.batch_data_cache
        THEN [called |-> TRUE, raised |-> "GreatExpectationsError",
              batch_id |-> batch_id, request |-> NoRequest]
        ELSE [called |-> TRUE, raised |-> "none", batch_id |-> batch_id,
              request |-> get_sqlalchemy_column_metadata_request(batch_data)]

InitSql ==
    /\ sql_domain_kwargs \in SqlDomainKwargs
    /\ batch_manager \in BatchManagers
    /\ batch_manager_at_call = batch_manager
    /\ sql_column_types = NoSqlColumnTypes
    /\ IncIdle /\ TypesIdle /\ DepsIdle
    /\ pc = "sql_column_types"

SqlColumnTypes ==
    /\ pc = "sql_column_types"
    /\ ~sql_column_types.called
    /\ sql_column_types' = ColumnTypes_sqlalchemy(sql_domain_kwargs, batch_manager)
    /\ UNCHANGED <<sql_domain_kwargs, batch_manager, batch_manager_at_call,
                   incVars, typesVars, depsVars, pc>>

NextSql == SqlColumnTypes

SpecSql == InitSql /\ [][NextSql]_vars

\* The batch the claim names: the one given in the domain kwargs, the active
\* one when none is given.
GivenBatchId ==
    IF "batch_id" \in DOMAIN sql_domain_kwargs
    THEN sql_domain_kwargs["batch_id"] ELSE "None"

ChosenBatchId ==
    IF GivenBatchId # "None" THEN GivenBatchId
    ELSE batch_manager_at_call.active_batch_data_id

\* C12: the SQL introspection uses the batch_id of the domain kwargs when
\* there is one, whatever batch is active, and the active batch only
\* without one; it raises, asks for no column list and leaves the batch
\* manager as it was when there is neither, and when the chosen batch is not
\* in the cache, the active batch being no fallback.
C12_BatchResolvedWithoutFallback ==
    sql_column_types.called =>
        /\ batch_manager = batch_manager_at_call
        /\ IF \/ ChosenBatchId = "None"
              \/ ChosenBatchId \notin DOMAIN batch_manager_at_call.batch_data_cache
           THEN /\ sql_column_types.raised = "GreatExpectationsError"
                /\ sql_column_types.request = NoRequest
           ELSE /\ sql_column_types.raised = "none"
                /\ sql_column_types.batch_id = ChosenBatchId
                /\ sql_column_types.request =
                      get_sqlalchemy_column_metadata_request(
                          batch_manager_at_call.batch_data_cache[ChosenBatchId])

\* C12 witness: b2 is given while b1 is active, the two batches differ, and
\* the introspection asked for b2's table.
C12_Witness ==
    /\ sql_column_types.called /\ sql_column_types.raised = "none"
    /\ GivenBatchId = "b2"
    /\ batch_manager.active_batch_data_id = "b1"
    /\ sql_column_types.batch_id = "b2"
    /\ sql_column_types.request.table_selectable = [kind |-> "str", text |-> "src_t"]
    /\ batch_manager.batch_data_cache["b1"].selectable.kind = "TextClause"

====
